---- MODULE Spec2Model ----
(***************************************************************************)
(* DynamicClassifyObjects (src/dynamicclassifyobjects.py): the settings    *)
(* groups of the module, validate_group / validate_module,                 *)
(* run_single_measurement, get_measurement_columns and get_measurements,   *)
(* as a state machine.  Spec follows one group through all its binning     *)
(* settings; SpecGroups follows a list of groups that grows and shrinks.   *)
(*                                                                         *)
(* Text is a sequence of atoms: one-character strings where the code looks  *)
(* at characters (digits, comma, space, the letters of bin names), whole   *)
(* words where it never looks inside ("Classify", "Bin", a measurement      *)
(* name).  str.split, str.strip and float() are computed on these          *)
(* sequences as Python computes them on strings.                           *)
(* Numbers are extended rationals (nan, -inf, +inf, n/d): comparisons are  *)
(* exact; floating-point rounding is not modelled.                         *)
(***************************************************************************)
EXTENDS Integers, Sequences, FiniteSets, TLC

\* ---------------------------------------------------------------- bounds
MaxObjects == 2
MaxThresholds == 3
MaxBinCount == 2
MaxGroups == 3

\* ------------------------------------------------------ module constants
BC_EVEN == "Evenly spaced bins"
BC_CUSTOM == "Custom-defined bins"
M_CATEGORY == <<"Classify">>
F_PCT_PER_BIN == <<"PctObjectsPerBin">>
F_NUM_PER_BIN == <<"NumObjectsPerBin">>
IMAGE == "Image"
NONE == <<"None">>

\* ------------------------------------------------------------- numbers
NaN == [k |-> "nan", n |-> 0, d |-> 1]
NegInf == [k |-> "ninf", n |-> 0, d |-> 1]
PosInf == [k |-> "pinf", n |-> 0, d |-> 1]
Fin(i) == [k |-> "fin", n |-> i, d |-> 1]
Frac(i, j) == [k |-> "fin", n |-> i, d |-> j]
ValueError == [k |-> "ValueError", n |-> 0, d |-> 1]

IsNaN(a) == a.k = "nan"

\* a > b of IEEE floats: False as soon as one side is nan
Gt(a, b) ==
    \/ a.k = "pinf" /\ b.k \in {"ninf", "fin"}
    \/ a.k = "fin" /\ b.k = "ninf"
    \/ a.k = "fin" /\ b.k = "fin" /\ a.n * b.d > b.n * a.d

\* a <= b of IEEE floats: False as soon as one side is nan
Le(a, b) ==
    \/ a.k = "ninf" /\ b.k \in {"ninf", "fin", "pinf"}
    \/ a.k = "fin" /\ b.k = "pinf"
    \/ a.k = "pinf" /\ b.k = "pinf"
    \/ a.k = "fin" /\ b.k = "fin" /\ a.n * b.d <= b.n * a.d

\* ---------------------------------------------------------------- text
Digits == <<"0", "1", "2", "3", "4", "5", "6", "7", "8", "9">>
DigitChars == {Digits[i] : i \in 1..10}
LetterChars == {"a", "b", "c", "Classify", "PctObjectsPerBin",
                "NumObjectsPerBin", "None", "Bin", "Area", "Intensity"}
Whitespace == {" "}

DigitValue(c) == CHOOSE i \in 0..9 : Digits[i + 1] = c

\* str(n) for a non-negative integer
RECURSIVE Str(_)
Str(n) == IF n < 10 THEN <<Digits[n + 1]>>
          ELSE Str(n \div 10) \o <<Digits[(n % 10) + 1]>>

StartsWith(text, sep) ==
    /\ Len(text) >= Len(sep)
    /\ SubSeq(text, 1, Len(sep)) = sep

\* text.split(sep), sep not empty: cut at every leftmost occurrence of sep
RECURSIVE SplitFrom(_, _, _)
SplitFrom(text, sep, cur) ==
    IF text = <<>> THEN <<cur>>
    ELSE IF StartsWith(text, sep)
         THEN <<cur>> \o SplitFrom(SubSeq(text, Len(sep) + 1, Len(text)), sep, <<>>)
         ELSE SplitFrom(Tail(text), sep, Append(cur, Head(text)))
Split(text, sep) == SplitFrom(text, sep, <<>>)

\* text.strip()
RECURSIVE LStrip(_)
LStrip(text) ==
    IF text # <<>> /\ Head(text) \in Whitespace THEN LStrip(Tail(text)) ELSE text
RECURSIVE RStrip(_)
RStrip(text) ==
    IF text # <<>> /\ text[Len(text)] \in Whitespace
    THEN RStrip(SubSeq(text, 1, Len(text) - 1)) ELSE text
Strip(text) == LStrip(RStrip(text))

\* '_'.join(parts)
RECURSIVE Join(_)
Join(parts) ==
    IF Len(parts) = 0 THEN <<>>
    ELSE IF Len(parts) = 1 THEN parts[1]
    ELSE parts[1] \o <<"_">> \o Join(Tail(parts))

RECURSIVE DigitsValue(_)
DigitsValue(text) ==
    IF text = <<>> THEN 0
    ELSE 10 * DigitsValue(SubSeq(text, 1, Len(text) - 1))
         + DigitValue(text[Len(text)])

\* float(text) on the alphabet of the model (digits, letters, comma, space):
\* an unsigned digit string, surrounding whitespace allowed, is a number;
\* anything else raises ValueError
Float(text) ==
    LET t == Strip(text)
    IN  IF t # <<>> /\ \A i \in 1..Len(t) : t[i] \in DigitChars
        THEN Fin(DigitsValue(t))
        ELSE ValueError

\* cps.AlphanumericText.validate_alphanumeric_text(text, setting, True) of the
\* host: letters, digits and underscore, the first one no digit
validate_alphanumeric_text(text) ==
    /\ text # <<>>
    /\ text[1] \in LetterChars \cup {"_"}
    /\ \A i \in 1..Len(text) : text[i] \in LetterChars \cup DigitChars \cup {"_"}

\* -------------------------------------------------------- number arithmetic
\* a - b, a * b, a / b, a + b on nan and finite numbers (the thresholds of the
\* model are never infinite before the catch-bin edges are added)
Sub(a, b) ==
    IF a.k = "fin" /\ b.k = "fin" THEN Frac(a.n * b.d - b.n * a.d, a.d * b.d)
    ELSE NaN
Add(a, b) ==
    IF a.k = "fin" /\ b.k = "fin" THEN Frac(a.n * b.d + b.n * a.d, a.d * b.d)
    ELSE NaN
Mul(a, b) ==
    IF a.k = "fin" /\ b.k = "fin" THEN Frac(a.n * b.n, a.d * b.d)
    ELSE NaN
\* numpy division by the float of a non-negative integer: 0/0 is nan, x/0 is
\* an infinity
DivInt(a, j) ==
    IF a.k # "fin" THEN NaN
    ELSE IF j > 0 THEN Frac(a.n, a.d * j)
    ELSE IF a.n = 0 THEN NaN
    ELSE IF a.n > 0 THEN PosInf ELSE NegInf

\* ------------------------------------------------------- settings groups
\* add_single_measurement: the settings of a new group, with their defaults
DefaultGroup(can_delete) ==
    [ object_name |-> "None",
      measurement |-> <<"None">>,
      bin_choice |-> BC_EVEN,
      bin_count |-> 3,
      wants_image_based_low_threshold |-> TRUE,
      low_threshold_measurement |-> "ImLow",
      low_threshold |-> Fin(0),
      wants_low_bin |-> FALSE,
      wants_image_based_high_threshold |-> FALSE,
      high_threshold_measurement |-> "ImHigh",
      high_threshold |-> Fin(1),
      wants_high_bin |-> FALSE,
      custom_thresholds |-> <<"0", ",", "1">>,
      wants_custom_names |-> FALSE,
      bin_names |-> NONE,
      wants_images |-> FALSE,
      can_delete |-> can_delete ]

\* minval of the bin_count setting, which the settings check of the host
\* enforces on the groups of a pipeline that runs
bin_count_minval == 1
bin_count_test_valid(groups) ==
    \A g \in 1..Len(groups) : groups[g].bin_count >= bin_count_minval

\* number_of_bins() of a group
number_of_bins(group) ==
    (IF group.bin_choice = BC_EVEN
     THEN group.bin_count
     ELSE Len(Split(group.custom_thresholds, <<",">>)) - 1)
    + (IF group.wants_low_bin THEN 1 ELSE 0)
    + (IF group.wants_high_bin THEN 1 ELSE 0)

\* measurement_name() of group g (an index of the list groups): the measurement,
\* with the number of earlier groups of the same measurement appended
measurement_nameMutAll(groups, g) ==
    LET name == groups[g].measurement
        other_same == Cardinality({i \in 1..Len(groups) :
                                     i # g /\ groups[i].measurement = name})
    IN  IF other_same > 0 THEN name \o Str(other_same) ELSE name
measurement_name(groups, g) ==
    LET name == groups[g].measurement
        other_same == Cardinality({i \in 1..(g - 1) : groups[i].measurement = name})
    IN  IF other_same > 0 THEN name \o Str(other_same) ELSE name

\* bin_feature_names() of group g
bin_feature_names(groups, g) ==
    IF groups[g].wants_custom_names
    THEN LET names == Split(groups[g].bin_names, <<",">>)
         IN  [i \in 1..Len(names) |-> Strip(names[i])]
    ELSE LET nb == number_of_bins(groups[g])
         IN  [i \in 1..(IF nb > 0 THEN nb ELSE 0) |->
                 Join(<<measurement_name(groups, g), <<"Bin", "_">> \o Str(i)>>)]

\* ------------------------------------------------------------ validation
Passed == [raised |-> FALSE, setting |-> "none"]
ValidationError(setting) == [raised |-> TRUE, setting |-> setting]
NotValidated == [raised |-> FALSE, setting |-> "not validated"]

\* the custom thresholds as validate_group parses them
ValidationTokens(group) ==
    LET toks == Split(group.custom_thresholds, <<",">>)
    IN  [i \in 1..Len(toks) |-> Float(Strip(toks[i]))]

validate_groupMutOrder(groups, g) ==
    LET group == groups[g]
        names == bin_feature_names(groups, g)
    IN  IF number_of_bins(group) < 1
        THEN ValidationError(IF group.bin_choice = BC_EVEN
                             THEN "bin_count" ELSE "custom_thresholds")
        ELSE IF /\ group.bin_choice = BC_CUSTOM
                /\ \E i \in 1..Len(ValidationTokens(group)) :
                       ValidationTokens(group)[i] = ValueError
        THEN ValidationError("custom_thresholds")
        ELSE IF Len(names) # number_of_bins(group)
        THEN ValidationError("bin_names")
        ELSE IF \E i \in 1..Len(names) : ~validate_alphanumeric_text(names[i])
        THEN ValidationError("bin_names")
        ELSE Passed
\* validate_group() of group g: the ValidationError it raises, or Passed
validate_group(groups, g) ==
    LET group == groups[g]
        names == bin_feature_names(groups, g)
        bin_name_count == Len(names)
        bin_count == number_of_bins(group)
    IN  IF bin_count < 1
        THEN ValidationError(IF group.bin_choice = BC_EVEN
                             THEN "bin_count" ELSE "custom_thresholds")
        ELSE IF bin_name_count # number_of_bins(group)
        THEN ValidationError("bin_names")
        ELSE IF \E i \in 1..Len(names) : ~validate_alphanumeric_text(names[i])
        THEN ValidationError("bin_names")
        ELSE IF /\ group.bin_choice = BC_CUSTOM
                /\ \E i \in 1..Len(ValidationTokens(group)) :
                       ValidationTokens(group)[i] = ValueError
        THEN ValidationError("custom_thresholds")
        ELSE Passed

\* validate_module: the first error of the groups in order
RECURSIVE validate_from(_, _)
validate_from(groups, g) ==
    IF g > Len(groups) THEN Passed
    ELSE IF validate_group(groups, g).raised THEN validate_group(groups, g)
    ELSE validate_from(groups, g + 1)
validate_module_result(groups) == validate_from(groups, 1)

\* ------------------------------------------------------------------ run
\* np.arange(bin_count+1) * (high - low) / float(bin_count) + low
EvenThresholds(low, high, bin_count) ==
    [i \in 1..(bin_count + 1) |->
        Add(DivInt(Mul(Fin(i - 1), Sub(high, low)), bin_count), low)]

\* the custom thresholds as run_single_measurement parses them: the list of
\* floats, or <<ValueError>> when float() raises
CustomThresholds(group) ==
    LET toks == Split(group.custom_thresholds, <<",", " ">>)
        vals == [i \in 1..Len(toks) |-> Float(Strip(toks[i]))]
    IN  IF \E i \in 1..Len(vals) : vals[i] = ValueError
        THEN <<ValueError>> ELSE vals

get_current_measurement(ws, object_name, feature) ==
    ws.objects[<<object_name, feature>>]
get_current_image_measurement(ws, feature) == ws.image[feature]

\* the thresholds before the infinities are added
Thresholds(group, ws) ==
    IF group.bin_choice = BC_EVEN
    THEN LET low_threshold ==
                 IF group.wants_image_based_low_threshold
                 THEN get_current_image_measurement(ws, group.low_threshold_measurement)
                 ELSE group.low_threshold
             high_threshold ==
                 IF group.wants_image_based_high_threshold
                 THEN get_current_image_measurement(ws, group.high_threshold_measurement)
                 ELSE group.high_threshold
         IN  EvenThresholds(low_threshold, high_threshold, group.bin_count)
    ELSE CustomThresholds(group)

EdgesMutNoHigh(group, thresholds) ==
    (IF group.wants_low_bin THEN <<NegInf>> ELSE <<>>) \o thresholds
\* np.hstack(([-inf] if wants_low_bin else [], thresholds,
\*            [inf] if wants_high_bin else []))
Edges(group, thresholds) ==
    (IF group.wants_low_bin THEN <<NegInf>> ELSE <<>>)
    \o thresholds
    \o (IF group.wants_high_bin THEN <<PosInf>> ELSE <<>>)

\* bin_hits: one row per object, one column per pair of consecutive edges
InBinMutLeftClosed(value, lo, hi) == Le(lo, value) /\ Gt(hi, value)
InBinMutNaN(value, lo, hi) == ~Le(value, lo) /\ ~Gt(value, hi)
InBinMutGe(value, lo, hi) == Le(lo, value) /\ Le(value, hi)
InBin(value, lo, hi) == Gt(value, lo) /\ Le(value, hi)
BinHits(values, edges) ==
    [o \in 1..Len(values) |->
        [b \in 1..(Len(edges) - 1) |-> InBin(values[o], edges[b], edges[b + 1])]]

\* bin_hits[:, bin_idx].sum()
RECURSIVE ColumnSum(_, _, _)
ColumnSum(bin_hits, b, o) ==
    IF o = 0 THEN 0
    ELSE (IF bin_hits[o][b] THEN 1 ELSE 0) + ColumnSum(bin_hits, b, o - 1)

PctMutNonNaN(num_hits, values) ==
    LET n == Cardinality({o \in 1..Len(values) : ~IsNaN(values[o])})
    IN  IF n > 0 THEN Frac(100 * num_hits, n) ELSE Fin(0)
Pct(num_hits, values) ==
    LET num_values == Len(values)
    IN  IF num_values > 0 THEN Frac(100 * num_hits, num_values) ELSE Fin(0)

\* the three add_measurement calls of one round of the loop over the names
BinWrites(object_name, feature_name, bin_hits, b, values) ==
    LET num_hits == ColumnSum(bin_hits, b, Len(bin_hits))
    IN  << [entity |-> object_name,
            name |-> Join(<<M_CATEGORY, feature_name>>),
            column |-> [o \in 1..Len(bin_hits) |-> IF bin_hits[o][b] THEN 1 ELSE 0],
            scalar |-> Fin(0)],
           [entity |-> IMAGE,
            name |-> Join(<<M_CATEGORY, feature_name, F_NUM_PER_BIN>>),
            column |-> <<>>,
            scalar |-> Fin(num_hits)],
           [entity |-> IMAGE,
            name |-> Join(<<M_CATEGORY, feature_name, F_PCT_PER_BIN>>),
            column |-> <<>>,
            scalar |-> Pct(num_hits, values)] >>

RECURSIVE WritesUpTo(_, _, _, _, _)
WritesUpTo(object_name, names, bin_hits, values, b) ==
    IF b = 0 THEN <<>>
    ELSE WritesUpTo(object_name, names, bin_hits, values, b - 1)
         \o BinWrites(object_name, names[b], bin_hits, b, values)

\* th_idx of np.mgrid: the 0-based column number, in every row
ThIdx(b) == b - 1

\* np.sum(bin_hits * th_idx, 1) of one row, over its first b columns
RECURSIVE RowIndexSum(_, _)
RowIndexSum(row, b) ==
    IF b = 0 THEN 0
    ELSE RowIndexSum(row, b - 1) + (IF row[b] THEN ThIdx(b) ELSE 0)

\* object_bins = np.sum(bin_hits * th_idx, 1) + 1
object_bins(bin_hits) ==
    [o \in 1..Len(bin_hits) |-> RowIndexSum(bin_hits[o], Len(bin_hits[o])) + 1]

\* object_color = np.hstack(([0], object_bins)) with the entries of the NaN
\* values set to 0: entry 1 is the background label 0, entry o + 1 is object o
object_color(bin_hits, values) ==
    <<0>> \o [o \in 1..Len(bin_hits) |->
                IF IsNaN(values[o]) THEN 0 ELSE object_bins(bin_hits)[o]]

NotRun ==
    [status |-> "not run", edges |-> <<>>, bin_hits |-> <<>>, writes |-> <<>>,
     object_color |-> <<>>]

\* run_single_measurement(group, workspace) for group g: how it ends, the edges
\* and bin_hits it computes and the add_measurement calls it makes, in order
run_single_measurement(groups, g, ws, show) ==
    LET group == groups[g]
        values == get_current_measurement(ws, group.object_name, group.measurement)
        thresholds == Thresholds(group, ws)
    IN  IF thresholds = <<ValueError>>
        THEN [NotRun EXCEPT !.status = "ValueError"]
        ELSE LET edges == Edges(group, thresholds)
                 bin_hits == BinHits(values, edges)
                 columns == Len(edges) - 1
                 names == bin_feature_names(groups, g)
                 done == IF Len(names) <= columns THEN Len(names) ELSE columns
             IN  [status |-> IF Len(names) > columns THEN "IndexError" ELSE "ok",
                  edges |-> edges,
                  bin_hits |-> bin_hits,
                  writes |-> WritesUpTo(group.object_name, names, bin_hits, values, done),
                  object_color |->
                      IF Len(names) <= columns /\ (group.wants_images \/ show)
                      THEN object_color(bin_hits, values) ELSE <<>>]

\* ------------------------------------------------------------- inputs
\* the settings a pipeline can give a group
StaticLow == {Fin(0)}
StaticHigh == {Fin(10)}
ImageVals == {NaN, Fin(15)}
ThresholdTokens == {<<"0">>, <<"5">>, <<"a">>}
Separators == {<<",">>, <<",", " ">>}
NameTexts ==
    { <<"a">>, <<"a", ",", "b">>, <<"a", ",", " ", "b">>, <<"a", ",", "a">>,
      <<"1", ",", "b">>, <<"a", ",", "b", ",", "c">> }
Vals == {NaN} \cup {Fin(v) : v \in {-5, 0, 5, 10, 15}}

RECURSIVE TextsOf(_, _, _)
TextsOf(n, tokens, seps) ==
    IF n = 1 THEN tokens
    ELSE {t \o s \o tok : t \in TextsOf(n - 1, tokens, seps), s \in seps, tok \in tokens}
CustomTexts == UNION {TextsOf(n, ThresholdTokens, Separators) : n \in 1..MaxThresholds}

Vectors == UNION {[1..n -> Vals] : n \in 0..MaxObjects}

BaseGroup ==
    [DefaultGroup(FALSE) EXCEPT !.object_name = "Nuclei", !.measurement = <<"Area">>]

BinningConfigs ==
    {[BaseGroup EXCEPT !.bin_choice = BC_EVEN,
                       !.bin_count = bc,
                       !.wants_image_based_low_threshold = il,
                       !.wants_image_based_high_threshold = ih,
                       !.low_threshold = lo,
                       !.high_threshold = hi,
                       !.wants_low_bin = wl,
                       !.wants_high_bin = wh] :
        bc \in 0..MaxBinCount, il \in BOOLEAN, ih \in BOOLEAN,
        lo \in StaticLow, hi \in StaticHigh, wl \in BOOLEAN, wh \in BOOLEAN}
    \cup
    {[BaseGroup EXCEPT !.bin_choice = BC_CUSTOM,
                       !.custom_thresholds = text,
                       !.wants_low_bin = wl,
                       !.wants_high_bin = wh] :
        text \in CustomTexts, wl \in BOOLEAN, wh \in BOOLEAN}

GroupConfigs ==
    BinningConfigs
    \cup {[c EXCEPT !.wants_custom_names = TRUE, !.bin_names = names] :
            c \in BinningConfigs, names \in NameTexts}

\* the measurements of one image cycle: a vector per (object, measurement) the
\* groups classify, a scalar per image measurement the groups take a threshold
\* from
ObjectKeys(groups) ==
    {<<groups[g].object_name, groups[g].measurement>> : g \in 1..Len(groups)}
ImageKeys(groups) ==
    {groups[g].low_threshold_measurement :
        g \in {h \in 1..Len(groups) : /\ groups[h].bin_choice = BC_EVEN
                                      /\ groups[h].wants_image_based_low_threshold}}
    \cup
    {groups[g].high_threshold_measurement :
        g \in {h \in 1..Len(groups) : /\ groups[h].bin_choice = BC_EVEN
                                      /\ groups[h].wants_image_based_high_threshold}}
Workspaces(groups) ==
    {[objects |-> o, image |-> i] :
        o \in {f \in [ObjectKeys(groups) -> Vectors] :
                 \A k1, k2 \in ObjectKeys(groups) :
                     k1[1] = k2[1] => Len(f[k1]) = Len(f[k2])},
        i \in [ImageKeys(groups) -> ImageVals]}
NoWorkspace == [objects |-> <<>>, image |-> <<>>]

\* ------------------------------------------------------- state machine
VARIABLES single_measurements, pc, validation, workspace, results,
          show_window, reply
vars == <<single_measurements, pc, validation, workspace, results,
          show_window, reply>>

\* what the last call of get_measurement_columns or get_measurements returned
NoReply == [op |-> "none", object_name |-> "", category |-> <<>>, value |-> <<>>]

\* create_settings: one group that cannot be deleted
Init ==
    /\ single_measurements = <<DefaultGroup(FALSE)>>
    /\ pc = "created"
    /\ validation = NotValidated
    /\ workspace = NoWorkspace
    /\ results = <<>>
    /\ show_window = FALSE
    /\ reply = NoReply

\* the pipeline gives the settings of the first group their values
set_settings ==
    /\ pc = "created"
    /\ \E c \in GroupConfigs :
           single_measurements' = [single_measurements EXCEPT ![1] = c]
    /\ pc' = "configured"
    /\ UNCHANGED <<validation, workspace, results, show_window, reply>>

\* validate_module(pipeline); the pipeline is ready to run when, besides, every
\* bin_count respects the minimum its setting declares
validate_module ==
    /\ pc \in {"created", "configured"}
    /\ validation' = validate_module_result(single_measurements)
    /\ pc' = IF validation'.raised \/ ~bin_count_test_valid(single_measurements)
             THEN "invalid" ELSE "valid"
    /\ UNCHANGED <<single_measurements, workspace, results, show_window, reply>>

\* run(workspace): the groups in order; an exception ends the run
RECURSIVE RunFrom(_, _, _, _)
RunFrom(groups, g, ws, show) ==
    IF g > Len(groups) THEN <<>>
    ELSE LET r == run_single_measurement(groups, g, ws, show)
         IN  IF r.status = "ok"
             THEN <<r>> \o RunFrom(groups, g + 1, ws, show)
             ELSE <<r>> \o [h \in 1..(Len(groups) - g) |-> NotRun]

run ==
    /\ pc = "valid"
    /\ \E ws \in Workspaces(single_measurements) :
           /\ workspace' = ws
           /\ results' = RunFrom(single_measurements, 1, ws, show_window)
    /\ pc' = "ran"
    /\ UNCHANGED <<single_measurements, validation, show_window, reply>>

Next ==
    \/ set_settings
    \/ validate_module
    \/ run

Spec == Init /\ [][Next]_vars

\* ------------------------------------------------- measurement queries
COLTYPE_INTEGER == "integer"
COLTYPE_FLOAT == "float"

\* the columns get_measurement_columns adds for group g
GroupColumns(groups, g) ==
    LET names == bin_feature_names(groups, g)
    IN  [i \in 1..Len(names) |->
            [entity |-> IMAGE,
             name |-> Join(<<M_CATEGORY, names[i], F_NUM_PER_BIN>>),
             coltype |-> COLTYPE_INTEGER]]
        \o [i \in 1..Len(names) |->
            [entity |-> IMAGE,
             name |-> Join(<<M_CATEGORY, names[i], F_PCT_PER_BIN>>),
             coltype |-> COLTYPE_FLOAT]]
        \o [i \in 1..Len(names) |->
            [entity |-> groups[g].object_name,
             name |-> Join(<<M_CATEGORY, names[i]>>),
             coltype |-> COLTYPE_INTEGER]]

RECURSIVE ColumnsUpTo(_, _)
ColumnsUpTo(groups, g) ==
    IF g = 0 THEN <<>> ELSE ColumnsUpTo(groups, g - 1) \o GroupColumns(groups, g)

\* get_measurement_columns(pipeline)
get_measurement_columns(groups) == ColumnsUpTo(groups, Len(groups))

\* the result list of get_measurements for the Image entity, after the rounds
\* of its two nested loops over group g
ImageFeatures(groups, g) ==
    LET names == bin_feature_names(groups, g)
    IN  [i \in 1..Len(names) |-> Join(<<names[i], F_NUM_PER_BIN>>)]
        \o [i \in 1..Len(names) |-> Join(<<names[i], F_PCT_PER_BIN>>)]

\* the loop of get_measurements over the groups, from group g on: it returns in
\* the first round whose group has the object name, or whose object_name
\* argument is Image
RECURSIVE get_measurements_from(_, _, _)
get_measurements_from(groups, g, object_name) ==
    IF g > Len(groups) THEN <<>>
    ELSE IF groups[g].object_name = object_name
         THEN bin_feature_names(groups, g)
         ELSE IF object_name = IMAGE
              THEN ImageFeatures(groups, g)
              ELSE get_measurements_from(groups, g + 1, object_name)

\* get_measurements(pipeline, object_name, category)
get_measurements(groups, object_name, category) ==
    IF category # M_CATEGORY THEN <<>>
    ELSE get_measurements_from(groups, 1, object_name)

\* ------------------------------------------- several groups: the inputs
GroupObjects == {"Nuclei", "Cells"}
GroupMeasurements == {<<"Area">>, <<"Intensity">>}
GroupNames == <<"a", ",", "b">>
OtherCategory == <<"Intensity">>
\* the values of two objects: one without a value and one in the first bin,
\* or one in the first bin and one above the last
GroupVectors == {<<NaN, Fin(5)>>, <<Fin(5), Fin(15)>>}

\* the settings the user gives a group of a list of several: two even bins
\* between 0 and 10, named after the measurement or by the user
SmallConfigs ==
    {[DefaultGroup(FALSE) EXCEPT !.object_name = o,
                                 !.measurement = m,
                                 !.bin_count = 2,
                                 !.wants_image_based_low_threshold = FALSE,
                                 !.low_threshold = Fin(0),
                                 !.high_threshold = Fin(10),
                                 !.wants_custom_names = cn,
                                 !.bin_names = IF cn THEN GroupNames ELSE NONE] :
        o \in GroupObjects, m \in GroupMeasurements, cn \in BOOLEAN}

GroupWorkspaces(groups) ==
    {[objects |-> o, image |-> i] :
        o \in {f \in [ObjectKeys(groups) -> GroupVectors] :
                 \A k1, k2 \in ObjectKeys(groups) :
                     k1[1] = k2[1] => Len(f[k1]) = Len(f[k2])},
        i \in [ImageKeys(groups) -> ImageVals]}

\* del a_list[i] of Python, i counted from 1
RemoveAt(list, i) == SubSeq(list, 1, i - 1) \o SubSeq(list, i + 1, Len(list))

\* ------------------------------------ several groups: the state machine
Editing == pc \in {"created", "configured"}

\* create_settings, in a host that shows the window of the module
InitGroups ==
    /\ single_measurements = <<DefaultGroup(FALSE)>>
    /\ pc = "created"
    /\ validation = NotValidated
    /\ workspace = NoWorkspace
    /\ results = <<>>
    /\ show_window = TRUE
    /\ reply = NoReply

\* the button "Add another classification": add_single_measurement(True)
add_single_measurement ==
    /\ Editing
    /\ Len(single_measurements) < MaxGroups
    /\ single_measurements' = Append(single_measurements, DefaultGroup(TRUE))
    /\ pc' = "configured"
    /\ UNCHANGED <<validation, workspace, results, show_window, reply>>

\* the button "Remove the above classification" of a group that has one
remove_settings_button ==
    /\ Editing
    /\ \E g \in 1..Len(single_measurements) :
           /\ single_measurements[g].can_delete
           /\ single_measurements' = RemoveAt(single_measurements, g)
    /\ pc' = "configured"
    /\ UNCHANGED <<validation, workspace, results, show_window, reply>>

\* prepare_settings(setting_values) for a saved count of groups
prepare_settings ==
    /\ Editing
    /\ \E single_measurement_count \in 1..MaxGroups :
           LET n == Len(single_measurements)
           IN  single_measurements' =
                   IF single_measurement_count < n
                   THEN SubSeq(single_measurements, 1, single_measurement_count)
                   ELSE single_measurements
                        \o [i \in 1..(single_measurement_count - n) |->
                               DefaultGroup(TRUE)]
    /\ pc' = "configured"
    /\ UNCHANGED <<validation, workspace, results, show_window, reply>>

\* the user gives the settings of one group their values
set_group_settings ==
    /\ Editing
    /\ \E g \in 1..Len(single_measurements), c \in SmallConfigs :
           single_measurements' =
               [single_measurements EXCEPT
                   ![g] = [c EXCEPT !.can_delete = single_measurements[g].can_delete]]
    /\ pc' = "configured"
    /\ UNCHANGED <<validation, workspace, results, show_window, reply>>

\* the host asks for the columns; the call changes nothing in the module, so
\* what can follow it is what can follow the state it was made in
ask_measurement_columns ==
    /\ Editing
    /\ reply' = [NoReply EXCEPT !.op = "get_measurement_columns",
                                !.value = get_measurement_columns(single_measurements)]
    /\ pc' = "answered"
    /\ UNCHANGED <<single_measurements, validation, workspace, results, show_window>>

\* the host asks for the measurements of an object name in a category
ask_measurements ==
    /\ Editing
    /\ \E object_name \in GroupObjects \cup {IMAGE},
          category \in {M_CATEGORY, OtherCategory} :
           reply' = [op |-> "get_measurements",
                     object_name |-> object_name,
                     category |-> category,
                     value |-> get_measurements(single_measurements,
                                                object_name, category)]
    /\ pc' = "answered"
    /\ UNCHANGED <<single_measurements, validation, workspace, results, show_window>>

\* run(workspace) of a pipeline of several groups
run_groups ==
    /\ pc = "valid"
    /\ \E ws \in GroupWorkspaces(single_measurements) :
           /\ workspace' = ws
           /\ results' = RunFrom(single_measurements, 1, ws, show_window)
    /\ pc' = "ran"
    /\ UNCHANGED <<single_measurements, validation, show_window, reply>>

NextGroups ==
    \/ add_single_measurement
    \/ remove_settings_button
    \/ prepare_settings
    \/ set_group_settings
    \/ validate_module
    \/ ask_measurement_columns
    \/ ask_measurements
    \/ run_groups

SpecGroups == InitGroups /\ [][NextGroups]_vars

\* ------------------------------------------------------------ properties
Groups == 1..Len(single_measurements)
Completed(g) == pc = "ran" /\ results[g].status = "ok"
\* the run of group g got as far as bin_hits (it may still fail to index it)
EdgesBuilt(g) == pc = "ran" /\ results[g].status \in {"ok", "IndexError"}
ValuesOf(g) ==
    get_current_measurement(workspace, single_measurements[g].object_name,
                            single_measurements[g].measurement)
Columns(g) == Len(results[g].edges) - 1
BinsOf(g, o) == {b \in 1..Columns(g) : results[g].bin_hits[o][b]}
BinsWritten(g) == Len(results[g].writes) \div 3
\* the NumObjectsPerBin and PctObjectsPerBin recorded for bin b (from 1)
CountOf(g, b) == results[g].writes[3 * b - 1].scalar.n
PctOf(g, b) == results[g].writes[3 * b].scalar
RECURSIVE SumCounts(_, _)
SumCounts(g, b) == IF b = 0 THEN 0 ELSE CountOf(g, b) + SumCounts(g, b - 1)
NaNObjects(g) == {o \in 1..Len(ValuesOf(g)) : IsNaN(ValuesOf(g)[o])}

\* C1: in every run of a validated configuration, each object's row of bin_hits
\* has at most one True entry.
C1_RowsExclusive ==
    \A g \in Groups : Completed(g) =>
        \A o \in 1..Len(ValuesOf(g)) : Cardinality(BinsOf(g, o)) <= 1

\* C2: a run of a validated configuration never ends in an error caused by the
\* configuration: the custom thresholds parse at run time as they did at
\* validation time and every bin feature name has its column of bin_hits.
C2_NoRunTimeError ==
    pc = "ran" => \A g \in Groups : results[g].status = "ok"

\* C3: in both spacing modes the edge sequence of a run, infinities included,
\* has number_of_bins() + 1 entries, so bin_hits has number_of_bins() columns.
C3_EdgesMatchNumberOfBins ==
    \A g \in Groups : EdgesBuilt(g) =>
        /\ Len(results[g].edges) = number_of_bins(single_measurements[g]) + 1
        /\ \A o \in 1..Len(ValuesOf(g)) :
               Len(results[g].bin_hits[o]) = number_of_bins(single_measurements[g])

C3_Witness ==
    /\ Completed(1)
    /\ single_measurements[1].bin_choice = BC_CUSTOM
    /\ single_measurements[1].wants_high_bin
    /\ Len(results[1].edges) = 4
    /\ Len(ValuesOf(1)) = 2

\* C4, its bound: the recorded NumObjectsPerBin counts of a group sum to at
\* most the number of objects N.
C4_CountsAtMostN ==
    \A g \in Groups : Completed(g) =>
        SumCounts(g, BinsWritten(g)) <= Len(ValuesOf(g))

\* C4 in full: the counts sum to at most N, and to exactly N if and only if no
\* value is NaN.
C4_CountsSum ==
    \A g \in Groups : Completed(g) =>
        /\ SumCounts(g, BinsWritten(g)) <= Len(ValuesOf(g))
        /\ (SumCounts(g, BinsWritten(g)) = Len(ValuesOf(g))) <=> (NaNObjects(g) = {})

EqNum(a, b) == a.k = "fin" /\ b.k = "fin" /\ a.n * b.d = b.n * a.d
IsValue(a, i) == EqNum(a, Fin(i))

\* the configuration of the worked example: Even spacing, low = 0, high = 10,
\* two bins, both thresholds static
ExampleEven(group) ==
    /\ group.bin_choice = BC_EVEN
    /\ group.bin_count = 2
    /\ ~group.wants_image_based_low_threshold
    /\ ~group.wants_image_based_high_threshold
    /\ group.low_threshold = Fin(0)
    /\ group.high_threshold = Fin(10)
ExampleRow(group, v) ==
    BinHits(<<Fin(v)>>, Edges(group, Thresholds(group, NoWorkspace)))[1]
ExamplePlain ==
    [BaseGroup EXCEPT !.bin_count = 2,
                      !.wants_image_based_low_threshold = FALSE,
                      !.low_threshold = Fin(0),
                      !.high_threshold = Fin(10)]
ExampleCatch == [ExamplePlain EXCEPT !.wants_low_bin = TRUE, !.wants_high_bin = TRUE]

\* C5: bin_hits[o][b] is True exactly when values[o] > edges[b] and
\* values[o] <= edges[b+1]; with Even spacing, low 0, high 10 and two bins the
\* edges are 0, 5, 10, so that 5 is in bin 0, 10 in bin 1 and 0, -1, 11 (and
\* -5, 15) in no bin, and with both catch bins -5 is in bin 0, 15 in bin 3.
C5_HalfOpenBins ==
    /\ \A g \in Groups : Completed(g) =>
        LET group == single_measurements[g]
            e == results[g].edges
            v == ValuesOf(g)
        IN  /\ \A o \in 1..Len(v) : \A b \in 1..Columns(g) :
                   results[g].bin_hits[o][b] <=>
                       /\ ~IsNaN(v[o]) /\ ~IsNaN(e[b]) /\ ~IsNaN(e[b + 1])
                       /\ Gt(v[o], e[b])
                       /\ ~Gt(v[o], e[b + 1])
            /\ (ExampleEven(group) /\ ~group.wants_low_bin /\ ~group.wants_high_bin) =>
                   /\ Len(e) = 3
                   /\ IsValue(e[1], 0) /\ IsValue(e[2], 5) /\ IsValue(e[3], 10)
                   /\ \A o \in 1..Len(v) :
                          /\ IsValue(v[o], 5) => BinsOf(g, o) = {1}
                          /\ IsValue(v[o], 10) => BinsOf(g, o) = {2}
                          /\ (IsValue(v[o], 0) \/ IsValue(v[o], -5) \/ IsValue(v[o], 15))
                                 => BinsOf(g, o) = {}
            /\ (ExampleEven(group) /\ group.wants_low_bin /\ group.wants_high_bin) =>
                   /\ Len(e) = 5
                   /\ \A o \in 1..Len(v) :
                          /\ IsValue(v[o], -5) => BinsOf(g, o) = {1}
                          /\ IsValue(v[o], 15) => BinsOf(g, o) = {4}
    \* the values of the example, -1 and 11 (not in Vals) included, classified
    \* against the example configurations: state-independent, evaluated once
    /\ pc = "created" =>
        /\ ExampleRow(ExamplePlain, -1) = <<FALSE, FALSE>>
        /\ ExampleRow(ExamplePlain, 11) = <<FALSE, FALSE>>
        /\ ExampleRow(ExamplePlain, 0) = <<FALSE, FALSE>>
        /\ ExampleRow(ExamplePlain, 5) = <<TRUE, FALSE>>
        /\ ExampleRow(ExamplePlain, 10) = <<FALSE, TRUE>>
        /\ ExampleRow(ExampleCatch, -5) = <<TRUE, FALSE, FALSE, FALSE>>
        /\ ExampleRow(ExampleCatch, 15) = <<FALSE, FALSE, FALSE, TRUE>>

C5_Witness ==
    /\ Completed(1)
    /\ ExampleEven(single_measurements[1])
    /\ single_measurements[1].wants_low_bin /\ single_measurements[1].wants_high_bin
    /\ Len(ValuesOf(1)) = 2
    /\ IsValue(ValuesOf(1)[1], -5) /\ BinsOf(1, 1) = {1}
    /\ IsValue(ValuesOf(1)[2], 15) /\ BinsOf(1, 2) = {4}

\* C6 as stated: a value equal to the edge e[k] is in the bin whose lower edge
\* is e[k], and not in the bin whose upper edge is e[k].
C6_EqualEdgeLowerBin ==
    \A g \in Groups : Completed(g) =>
        \A o \in 1..Len(ValuesOf(g)) : \A k \in 1..Columns(g) :
            EqNum(ValuesOf(g)[o], results[g].edges[k]) =>
                /\ results[g].bin_hits[o][k]
                /\ k > 1 => ~results[g].bin_hits[o][k - 1]

\* C6 amended: a value equal to the edge e[k] is never in the bin whose lower
\* edge is e[k]; it is in the bin whose upper edge is e[k] whenever that bin
\* exists and its lower edge is below the value.
C6_EqualEdgeUpperBin ==
    \A g \in Groups : Completed(g) =>
        \A o \in 1..Len(ValuesOf(g)) : \A k \in 1..Len(results[g].edges) :
            EqNum(ValuesOf(g)[o], results[g].edges[k]) =>
                /\ k <= Columns(g) => ~results[g].bin_hits[o][k]
                /\ (k > 1 /\ Gt(ValuesOf(g)[o], results[g].edges[k - 1]))
                       => results[g].bin_hits[o][k - 1]

C6_Witness ==
    /\ Completed(1)
    /\ Len(ValuesOf(1)) >= 1
    /\ Columns(1) >= 2
    /\ EqNum(ValuesOf(1)[1], results[1].edges[2])
    /\ results[1].bin_hits[1][1]
    /\ ~results[1].bin_hits[1][2]
    /\ Gt(results[1].edges[3], results[1].edges[2])

\* C7: in Custom mode N comma-separated thresholds give N + 1 bins.
C7_CustomBinsOneMoreThanThresholds ==
    \A g \in Groups :
        (Completed(g) /\ single_measurements[g].bin_choice = BC_CUSTOM) =>
            LET N == Len(Split(single_measurements[g].custom_thresholds, <<",">>))
            IN  /\ number_of_bins(single_measurements[g]) = N + 1
                /\ Columns(g) = N + 1

\* C8: a NaN-valued object has False in every bin of its row, catch bins
\* included, and a 0 in every recorded column; a vector of NaNs only gives
\* count 0 and percentage 0 in every bin.
C8_NaNInNoBin ==
    \A g \in Groups : Completed(g) =>
        /\ \A o \in NaNObjects(g) :
               /\ BinsOf(g, o) = {}
               /\ \A b \in 1..BinsWritten(g) : results[g].writes[3 * b - 2].column[o] = 0
        /\ NaNObjects(g) = 1..Len(ValuesOf(g)) =>
               \A b \in 1..BinsWritten(g) :
                   /\ CountOf(g, b) = 0
                   /\ PctOf(g, b).k = "fin" /\ PctOf(g, b).n = 0 /\ PctOf(g, b).d # 0

C8_Witness ==
    /\ Completed(1)
    /\ single_measurements[1].wants_low_bin /\ single_measurements[1].wants_high_bin
    /\ Len(ValuesOf(1)) = 2
    /\ NaNObjects(1) = {1, 2}
    /\ BinsWritten(1) >= 3
    /\ \A b \in 1..BinsWritten(1) : CountOf(1, b) = 0

\* C9: the recorded PctObjectsPerBin of a bin is 100 * count / N, N the number
\* of all objects, NaN-valued ones included, and 0 when N = 0; with no objects
\* every count and percentage is 0.
C9_Percentage ==
    \A g \in Groups : Completed(g) =>
        \A b \in 1..BinsWritten(g) :
            LET N == Len(ValuesOf(g))
                count == Cardinality({o \in 1..N : b \in BinsOf(g, o)})
                pct == PctOf(g, b)
            IN  /\ CountOf(g, b) = count
                /\ pct.k = "fin" /\ pct.d # 0
                /\ N > 0 => pct.n * N = 100 * count * pct.d
                /\ N = 0 => (pct.n = 0 /\ count = 0)

C9_Witness ==
    /\ Completed(1)
    /\ Len(ValuesOf(1)) = 2
    /\ Cardinality(NaNObjects(1)) = 1
    /\ BinsWritten(1) >= 1
    /\ CountOf(1, 1) = 1
    /\ EqNum(PctOf(1, 1), Fin(50))

\* --- validate_group, rule by rule
CommaCount(text) == Cardinality({i \in 1..Len(text) : text[i] = ","})
TotalBins(group) ==
    (IF group.bin_choice = BC_EVEN THEN group.bin_count
     ELSE CommaCount(group.custom_thresholds))
    + (IF group.wants_low_bin THEN 1 ELSE 0)
    + (IF group.wants_high_bin THEN 1 ELSE 0)
BadThresholdToken(group) ==
    /\ group.bin_choice = BC_CUSTOM
    /\ \E tok \in {Split(group.custom_thresholds, <<",">>)[i] :
                      i \in 1..(CommaCount(group.custom_thresholds) + 1)} :
           Float(tok) = ValueError
BadNameCount(group) ==
    /\ group.wants_custom_names
    /\ CommaCount(group.bin_names) + 1 # TotalBins(group)
BadName(groups, g) ==
    \E i \in 1..Len(bin_feature_names(groups, g)) :
        ~validate_alphanumeric_text(bin_feature_names(groups, g)[i])
\* validate_module has just returned (run leaves its result unchanged)
Validated == pc \in {"valid", "invalid"}

\* C10 as stated: bin count < 1, then the number of custom names, then the
\* custom thresholds that do not parse; it passes otherwise.
C10_ThreeRules ==
    Validated =>
        LET group == single_measurements[1]
        IN  validation =
              IF TotalBins(group) < 1
              THEN ValidationError(IF group.bin_choice = BC_EVEN
                                   THEN "bin_count" ELSE "custom_thresholds")
              ELSE IF BadNameCount(group) THEN ValidationError("bin_names")
              ELSE IF BadThresholdToken(group) THEN ValidationError("custom_thresholds")
              ELSE Passed

\* C10 amended: bin count < 1, then the number of custom names, then a bin
\* feature name that is not alphanumeric text (pointing at bin_names), then
\* the custom thresholds that do not parse; it passes otherwise.
C10_FourRules ==
    Validated =>
        LET group == single_measurements[1]
        IN  validation =
              IF TotalBins(group) < 1
              THEN ValidationError(IF group.bin_choice = BC_EVEN
                                   THEN "bin_count" ELSE "custom_thresholds")
              ELSE IF BadNameCount(group) THEN ValidationError("bin_names")
              ELSE IF BadName(single_measurements, 1) THEN ValidationError("bin_names")
              ELSE IF BadThresholdToken(group) THEN ValidationError("custom_thresholds")
              ELSE Passed

C10_Witness ==
    /\ pc = "invalid"
    /\ validation = ValidationError("bin_names")
    /\ BadThresholdToken(single_measurements[1])
    /\ ~BadNameCount(single_measurements[1])
    /\ BadName(single_measurements, 1)

\* the (entity, feature name) keys of the add_measurement calls of group g
WriteKeys(g) ==
    {<<results[g].writes[i].entity, results[g].writes[i].name>> :
        i \in 1..Len(results[g].writes)}

\* C11: in one run over several groups, no two different groups write the same
\* (entity, feature name) measurement key.
C11_GroupsWriteDisjointKeys ==
    pc = "ran" =>
        \A g, h \in Groups : g # h => WriteKeys(g) \cap WriteKeys(h) = {}

\* the number of groups before group g that use its measurement
EarlierSame(g) ==
    Cardinality({h \in 1..(g - 1) :
        single_measurements[h].measurement = single_measurements[g].measurement})

\* the names <prefix>_Bin_1 .. <prefix>_Bin_n
BinNamesOf(prefix, n) ==
    [i \in 1..n |-> prefix \o <<"_", "Bin", "_">> \o Str(i)]

AutoNamed == {g \in Groups : ~single_measurements[g].wants_custom_names}

\* C12 as stated: without custom names bin i of a group is
\* <measurement>_Bin_<i+1>, the measurement being the group's own for the first
\* group that uses it and, for the k-th later group that uses it (k from 0),
\* the measurement with k appended.
C12_SuffixCountsFromZero ==
    \A g \in AutoNamed :
        bin_feature_names(single_measurements, g) =
            BinNamesOf(IF EarlierSame(g) = 0
                       THEN single_measurements[g].measurement
                       ELSE single_measurements[g].measurement
                            \o Str(EarlierSame(g) - 1),
                       number_of_bins(single_measurements[g]))

\* C12, amended: the suffix of a later group is the number of earlier groups of
\* the current list that use the same measurement: 1 for the second group that
\* uses it, 2 for the third.
C12_SuffixIsEarlierCount ==
    \A g \in AutoNamed :
        bin_feature_names(single_measurements, g) =
            BinNamesOf(IF EarlierSame(g) = 0
                       THEN single_measurements[g].measurement
                       ELSE single_measurements[g].measurement
                            \o Str(EarlierSame(g)),
                       number_of_bins(single_measurements[g]))

C12_Witness ==
    /\ pc = "configured"
    /\ Len(single_measurements) = 3
    /\ \A g \in Groups : /\ single_measurements[g].measurement = <<"Area">>
                         /\ ~single_measurements[g].wants_custom_names
    /\ single_measurements[2].object_name # single_measurements[3].object_name
    /\ bin_feature_names(single_measurements, 2)[1] = <<"Area", "1", "_", "Bin", "_", "1">>
    /\ bin_feature_names(single_measurements, 3)[2] = <<"Area", "2", "_", "Bin", "_", "2">>

\* the (entity, feature name) pairs get_measurement_columns declares for group g
DeclaredKeys(g) ==
    LET columns == GroupColumns(single_measurements, g)
    IN  {<<columns[i].entity, columns[i].name>> : i \in 1..Len(columns)}

\* C13: for every group, the (entity, feature name) pairs declared by
\* get_measurement_columns are the pairs run_single_measurement writes for the
\* group, nothing more and nothing less.
C13_ColumnsEqualWrites ==
    pc = "ran" => \A g \in Groups : DeclaredKeys(g) = WriteKeys(g)

\* the colour index of object o (from 1) of group g, when the run computed one
ColourOf(g, o) == results[g].object_color[o + 1]
Coloured(g) == Completed(g) /\ results[g].object_color # <<>>

\* C14: when an image or a display is requested, the colour index of an object
\* in bin b (from 0) is b + 1, and it is 0 exactly for the objects in no bin:
\* the NaN-valued ones and the ones whose value lies outside all bins.
C14_ColourZeroIffNoBin ==
    \A g \in Groups : Coloured(g) =>
        \A o \in 1..Len(ValuesOf(g)) :
            /\ \A b \in BinsOf(g, o) : ColourOf(g, o) = ThIdx(b) + 1
            /\ (ColourOf(g, o) = 0) <=> (BinsOf(g, o) = {})

Range(seq) == {seq[i] : i \in 1..Len(seq)}

\* the measurements the groups produce for an entity: for Image the count and
\* percentage names of every bin of every group, for an object name the bin
\* feature names of every group that classifies the object
ProducedFor(object_name) ==
    IF object_name = IMAGE
    THEN UNION {Range(ImageFeatures(single_measurements, g)) : g \in Groups}
    ELSE UNION {Range(bin_feature_names(single_measurements, g)) :
                   g \in {h \in Groups :
                            single_measurements[h].object_name = object_name}}

\* C15: for category Classify get_measurements returns the measurements the
\* module produces for every configured group, whatever the number and order
\* of the groups.
C15_MeasurementsOfEveryGroup ==
    (reply.op = "get_measurements" /\ reply.category = M_CATEGORY) =>
        Range(reply.value) = ProducedFor(reply.object_name)
====
